---- MODULE Spec2Model ----
(***************************************************************************)
(* Theme resolver of assets/js/main.js: the stored preference              *)
(* (localStorage key 'xsoft-theme'), the data-theme attribute of <html>,   *)
(* the transition marker class, the prefers-color-scheme media query, the  *)
(* window timers and the 'xsoft:themechange' events.                       *)
(*                                                                         *)
(* The page is single threaded: every action below is one run-to-          *)
(* completion handler (page load, an API call, a click, a key press, an    *)
(* OS preference change, a timer callback) or the passing of time.         *)
(***************************************************************************)
EXTENDS Integers, Sequences, FiniteSets, TLC

\* ---------------------------------------------------------------- bounds
MaxTimers == 2        \* pending window timers the model lets accumulate
TickParts == 2        \* time passes in lapses of TRANSITION_MS / TickParts, or up to
                      \* the next timer deadline

\* ---------------------------------------------------------------- configuration
TRANSITION_MS == 180
VALID == [LIGHT |-> "light", DARK |-> "dark", SYSTEM |-> "system"]
DEFAULT == VALID.SYSTEM

NULL == "null"                       \* JavaScript null / a missing attribute
RefreshDelay == TRANSITION_MS + 10   \* setTimeout(refreshLabel, TRANSITION_MS + 10)
TickQuantum == TRANSITION_MS \div TickParts

Modes == {VALID.LIGHT, VALID.DARK, VALID.SYSTEM}
Effective == {VALID.LIGHT, VALID.DARK}
InvalidInputs == {"auto"}            \* a string outside the three modes
StoredValues == Modes \cup InvalidInputs \cup {"", NULL}
HintValues == Modes \cup InvalidInputs \cup {NULL}
SetInputs == Modes \cup InvalidInputs \cup {""}
Keys == {"Enter", " ", "a"}

VARIABLES
    pc,               \* "loading" until the onReady callback has run init(), then "ready"
    storage,          \* value under STORAGE_KEY in localStorage (NULL: no item)
    storageMode,      \* "ok", "throws" (access raises), "missing" (no window.localStorage)
    attr,             \* data-theme attribute of document.documentElement
    transitionClass,  \* html carries TRANSITION_CLASS
    osDark,           \* (prefers-color-scheme: dark) currently matches
    mqlCap,           \* media query object: "listener" (addEventListener or addListener),
                      \* "nolistener" (neither), "none" (matchMedia missing or throwing)
    watching,         \* init registered its change listener on the media query
    timers,           \* pending window.setTimeout callbacks, in creation order
    emitted,          \* 'xsoft:themechange' events dispatched by the last step
    outcome,          \* what the last step gave its caller: "none", "ok", "error", or the
                      \* value a getter returned
    hasButton,        \* the page has a toggle control
    ariaPressed,      \* aria-pressed of the toggle control
    choice,           \* history: last mode accepted by setTheme
    toggles,          \* history: toggleTheme calls in a row since the last other change (0..2)
    base              \* history: getEffectiveTheme() before the first of those calls

vars == <<pc, storage, storageMode, attr, transitionClass, osDark, mqlCap, watching,
          timers, emitted, outcome, hasButton, ariaPressed, choice, toggles, base>>

\* ---------------------------------------------------------------- utilities
safeLocalStorageGet == IF storageMode = "ok" THEN storage ELSE NULL

\* variant: the write is lost although storage is available
safeLocalStorageSet_Lost(value) == storage

\* value of the item after safeLocalStorageSet(STORAGE_KEY, value)
safeLocalStorageSet(value) == IF storageMode = "ok" THEN value ELSE storage

\* what safeLocalStorageSet returns
savedOK == storageMode # "throws"

\* variant: a falsy value passes the validation
isValidTheme_Falsy(v) == v = "" \/ v = VALID.LIGHT \/ v = VALID.DARK \/ v = VALID.SYSTEM

isValidTheme(v) == v = VALID.LIGHT \/ v = VALID.DARK \/ v = VALID.SYSTEM

readStored ==
    LET v == safeLocalStorageGet
    IN  IF v = NULL \/ v = "" THEN NULL
        ELSE IF isValidTheme(v) THEN v ELSE NULL

\* variant: the fallback of the catch branch is 'dark'
getSystemPref_DarkFallback ==
    IF mqlCap = "none" THEN VALID.DARK
    ELSE IF osDark THEN VALID.DARK ELSE VALID.LIGHT

getSystemPref ==
    IF mqlCap = "none" THEN VALID.LIGHT
    ELSE IF osDark THEN VALID.DARK ELSE VALID.LIGHT

\* variant: the listener is never registered
watchSystemPreference_Never == FALSE

\* TRUE when watchSystemPreference registers onChange
watchSystemPreference == mqlCap = "listener"

\* variant: the attribute is returned without the light/dark test
EffectiveOf_AttrOnly(a) == a

\* getEffectiveTheme() for an attribute value a
EffectiveOf(a) == IF a = VALID.LIGHT \/ a = VALID.DARK THEN a ELSE getSystemPref

getEffectiveTheme == EffectiveOf(attr)

\* variant: the requested mode is written without resolving 'system'
FinalOf_Unresolved(theme) == theme

\* the attribute value applyThemeToDOM(theme) writes
FinalOf(theme) == IF theme = VALID.SYSTEM THEN getSystemPref ELSE theme

\* the event applyThemeToDOM(theme) dispatches
AppliedEvent(theme) ==
    [themeRequested |-> theme, themeApplied |-> FinalOf(theme), saved |-> "absent"]

\* the event setTheme(theme) dispatches itself
SetEvent(theme) ==
    [themeRequested |-> theme, themeApplied |-> "absent",
     saved |-> IF savedOK THEN "true" ELSE "false"]

\* variant: the label follows the stored preference
refreshLabel_Stored(a) == IF readStored = VALID.DARK THEN "true" ELSE "false"

\* aria-pressed written by refreshLabel() when the attribute is a
refreshLabel(a) == IF EffectiveOf(a) = VALID.DARK THEN "true" ELSE "false"

Timer(kind, theme, delay) == [kind |-> kind, theme |-> theme, rem |-> delay]

\* ---------------------------------------------------------------- initial state
Init ==
    /\ pc = "loading"
    /\ storageMode \in {"ok", "throws", "missing"}
    /\ storage \in (IF storageMode = "ok" THEN StoredValues ELSE {NULL})
    /\ attr \in HintValues
    /\ transitionClass = FALSE
    /\ mqlCap \in {"listener", "nolistener", "none"}
    /\ osDark \in (IF mqlCap = "none" THEN {FALSE} ELSE BOOLEAN)
    /\ watching = FALSE
    /\ timers = <<>>
    /\ emitted = <<>>
    /\ outcome = "none"
    /\ hasButton \in BOOLEAN
    /\ ariaPressed = NULL
    /\ choice = NULL
    /\ toggles = 0
    /\ base = NULL

\* ---------------------------------------------------------------- init()
\* variant: the hint on the root element wins over the stored preference
InitChosen_HintFirst(stored, initialAttr) ==
    IF initialAttr \in Modes THEN initialAttr
    ELSE IF stored # NULL THEN stored
    ELSE DEFAULT

InitChosen(stored, initialAttr) ==
    IF stored # NULL THEN stored
    ELSE IF isValidTheme(initialAttr) THEN initialAttr
    ELSE DEFAULT

\* variant: init() persists what it resolved, as setTheme would
Initialize_Persisting ==
    /\ pc = "loading"
    /\ LET initialAttr == attr
           stored == readStored
           c == InitChosen(stored, initialAttr)
       IN  /\ attr' = FinalOf(c)
           /\ storage' = safeLocalStorageSet(c)
           /\ emitted' = <<AppliedEvent(c)>>
           /\ watching' = ((c = VALID.SYSTEM \/ stored = VALID.SYSTEM
                               \/ initialAttr = VALID.SYSTEM)
                           /\ watchSystemPreference)
           /\ ariaPressed' = IF hasButton THEN refreshLabel(FinalOf(c)) ELSE ariaPressed
    /\ pc' = "ready"
    /\ outcome' = "ok"
    /\ UNCHANGED <<storageMode, transitionClass, osDark, mqlCap, timers,
                   hasButton, choice, toggles, base>>

Initialize ==
    /\ pc = "loading"
    /\ LET initialAttr == attr
           stored == readStored
           c == InitChosen(stored, initialAttr)
       IN  /\ attr' = FinalOf(c)
           /\ emitted' = <<AppliedEvent(c)>>
           /\ watching' = ((c = VALID.SYSTEM \/ stored = VALID.SYSTEM
                               \/ initialAttr = VALID.SYSTEM)
                           /\ watchSystemPreference)
           /\ ariaPressed' = IF hasButton THEN refreshLabel(FinalOf(c)) ELSE ariaPressed
    /\ pc' = "ready"
    /\ outcome' = "ok"
    /\ UNCHANGED <<storage, storageMode, transitionClass, osDark, mqlCap, timers,
                   hasButton, choice, toggles, base>>

\* ---------------------------------------------------------------- timers
RECURSIVE MinRem(_)
MinRem(ts) ==
    IF Len(ts) = 1 THEN ts[1].rem
    ELSE LET m == MinRem(Tail(ts))
         IN  IF ts[1].rem <= m THEN ts[1].rem ELSE m

\* index of the callback the event loop runs next: the oldest one that is due
DueIndex == CHOOSE i \in 1..Len(timers) :
                /\ timers[i].rem = 0
                /\ \A j \in 1..(i - 1) : timers[j].rem # 0

HasDue == \E i \in 1..Len(timers) : timers[i].rem = 0

RemoveAt(ts, i) == SubSeq(ts, 1, i - 1) \o SubSeq(ts, i + 1, Len(ts))

\* time passes by d, no later than the next deadline
Tick(d) ==
    /\ timers # <<>>
    /\ d > 0
    /\ d <= MinRem(timers)
    /\ timers' = [i \in 1..Len(timers) |-> [timers[i] EXCEPT !.rem = @ - d]]
    /\ emitted' = <<>>
    /\ outcome' = "none"
    /\ UNCHANGED <<pc, storage, storageMode, attr, transitionClass, osDark, mqlCap,
                   watching, hasButton, ariaPressed, choice, toggles, base>>

\* ---------------------------------------------------------------- setTheme
\* variant: the deferred callback applies what storage holds, not its argument
DeferredTheme_Reread(theme) == IF storageMode = "ok" THEN theme ELSE DEFAULT

\* the mode the callback handed to withTransition applies (its closure's theme)
DeferredTheme(theme) == theme

\* setTheme(theme, {transition, noEmit}) for a valid theme; after: timers the
\* caller schedules once setTheme has returned
setTheme(theme, transition, noEmit, after) ==
    /\ isValidTheme(theme)
    /\ storage' = safeLocalStorageSet(theme)
    /\ choice' = theme
    /\ IF transition
       THEN \* withTransition: marker class now, applyThemeToDOM in a 0 ms timer
            /\ Len(timers) + 1 + Len(after) <= MaxTimers
            /\ transitionClass' = TRUE
            /\ timers' = Append(timers, Timer("apply", DeferredTheme(theme), 0)) \o after
            /\ attr' = attr
            /\ emitted' = IF noEmit THEN <<>> ELSE <<SetEvent(theme)>>
            /\ ariaPressed' = IF hasButton /\ ~noEmit THEN refreshLabel(attr)
                              ELSE ariaPressed
       ELSE /\ Len(timers) + Len(after) <= MaxTimers
            /\ transitionClass' = transitionClass
            /\ timers' = timers \o after
            /\ attr' = FinalOf(theme)
            /\ emitted' = <<AppliedEvent(theme)>>
                              \o (IF noEmit THEN <<>> ELSE <<SetEvent(theme)>>)
            /\ ariaPressed' = IF hasButton THEN refreshLabel(FinalOf(theme))
                              ELSE ariaPressed

\* setTheme throws before touching anything
setThemeThrows(theme) ==
    /\ ~isValidTheme(theme)
    /\ emitted' = <<>>
    /\ UNCHANGED <<storage, attr, transitionClass, timers, ariaPressed, choice, toggles, base>>

\* XSoftTheme.set(v)
ApiSet(v) ==
    /\ pc = "ready"
    /\ \/ setTheme(v, TRUE, FALSE, <<>>) /\ outcome' = "ok" /\ toggles' = 0 /\ base' = NULL
       \/ setThemeThrows(v) /\ outcome' = "error"
    /\ UNCHANGED <<pc, storageMode, osDark, mqlCap, watching, hasButton>>

\* ---------------------------------------------------------------- queries
\* XSoftTheme.current: the getter returns getEffectiveTheme()
ApiCurrent ==
    /\ pc = "ready"
    /\ outcome' = getEffectiveTheme
    /\ emitted' = <<>>
    /\ UNCHANGED <<pc, storage, storageMode, attr, transitionClass, osDark, mqlCap,
                   watching, timers, hasButton, ariaPressed, choice, toggles, base>>

\* XSoftTheme.stored: the getter returns readStored()
ApiStored ==
    /\ pc = "ready"
    /\ outcome' = readStored
    /\ emitted' = <<>>
    /\ UNCHANGED <<pc, storage, storageMode, attr, transitionClass, osDark, mqlCap,
                   watching, timers, hasButton, ariaPressed, choice, toggles, base>>

\* ---------------------------------------------------------------- toggleTheme
\* variant: the target is computed from the stored preference
ToggleTarget_FromStored == IF readStored = VALID.DARK THEN VALID.LIGHT ELSE VALID.DARK

ToggleTarget == IF getEffectiveTheme = VALID.DARK THEN VALID.LIGHT ELSE VALID.DARK

toggleTheme(after) ==
    /\ setTheme(ToggleTarget, TRUE, FALSE, after)
    /\ toggles' = IF toggles = 2 THEN 1 ELSE toggles + 1
    /\ base' = IF toggles \in {0, 2} THEN getEffectiveTheme ELSE base

\* XSoftTheme.toggle()
ApiToggle ==
    /\ pc = "ready"
    /\ toggleTheme(<<>>)
    /\ outcome' = "ok"
    /\ UNCHANGED <<pc, storageMode, osDark, mqlCap, watching, hasButton>>

\* ---------------------------------------------------------------- toggle control
ClickHandler ==
    /\ pc = "ready"
    /\ hasButton
    /\ toggleTheme(<<Timer("refresh", "-", RefreshDelay)>>)
    /\ outcome' = "ok"
    /\ UNCHANGED <<pc, storageMode, osDark, mqlCap, watching, hasButton>>

Click == ClickHandler

KeyDown(key) ==
    /\ pc = "ready"
    /\ hasButton
    /\ IF key = " " \/ key = "Enter"
       THEN ClickHandler
       ELSE /\ emitted' = <<>>
            /\ outcome' = "none"
            /\ UNCHANGED <<pc, storage, storageMode, attr, transitionClass, osDark, mqlCap,
                           watching, timers, hasButton, ariaPressed, choice,
                           toggles, base>>

\* ---------------------------------------------------------------- OS preference change
\* variant: the listener re-applies 'system' whatever is stored
ListenerReapplies_Always == TRUE

\* the listener's test of the stored preference
ListenerReapplies == readStored = VALID.SYSTEM \/ readStored = NULL

\* the media query flips; the listener init() registered (if any) runs
OSChange ==
    /\ pc = "ready"
    /\ mqlCap # "none"
    /\ osDark' = ~osDark
    /\ IF watching /\ ListenerReapplies
       THEN /\ Len(timers) + 1 <= MaxTimers
            /\ transitionClass' = TRUE
            /\ timers' = Append(timers, Timer("apply", VALID.SYSTEM, 0))
       ELSE UNCHANGED <<transitionClass, timers>>
    /\ emitted' = <<>>
    /\ outcome' = "none"
    /\ toggles' = 0
    /\ base' = NULL
    /\ UNCHANGED <<pc, storage, storageMode, attr, mqlCap, watching, hasButton,
                   ariaPressed, choice>>

\* ---------------------------------------------------------------- timer callbacks
\* withTransition's first callback: fn(), then the removal timer
FireApply ==
    /\ HasDue
    /\ LET i == DueIndex
           t == timers[i]
       IN  /\ t.kind = "apply"
           /\ attr' = FinalOf(t.theme)
           /\ emitted' = <<AppliedEvent(t.theme)>>
           /\ ariaPressed' = IF hasButton THEN refreshLabel(FinalOf(t.theme))
                             ELSE ariaPressed
           /\ timers' = Append(RemoveAt(timers, i), Timer("remove", "-", TRANSITION_MS))
    /\ outcome' = "none"
    /\ UNCHANGED <<pc, storage, storageMode, transitionClass, osDark, mqlCap, watching,
                   hasButton, choice, toggles, base>>

\* variant: the second callback leaves the marker class
FireRemove_KeepsClass ==
    /\ HasDue
    /\ LET i == DueIndex
       IN  /\ timers[i].kind = "remove"
           /\ timers' = RemoveAt(timers, i)
    /\ emitted' = <<>>
    /\ outcome' = "none"
    /\ UNCHANGED <<pc, storage, storageMode, attr, transitionClass, osDark, mqlCap,
                   watching, hasButton, ariaPressed, choice, toggles, base>>

\* withTransition's second callback
FireRemove ==
    /\ HasDue
    /\ LET i == DueIndex
       IN  /\ timers[i].kind = "remove"
           /\ timers' = RemoveAt(timers, i)
    /\ transitionClass' = FALSE
    /\ emitted' = <<>>
    /\ outcome' = "none"
    /\ UNCHANGED <<pc, storage, storageMode, attr, osDark, mqlCap, watching,
                   hasButton, ariaPressed, choice, toggles, base>>

\* the click handler's setTimeout(refreshLabel, ...)
FireRefresh ==
    /\ HasDue
    /\ LET i == DueIndex
       IN  /\ timers[i].kind = "refresh"
           /\ timers' = RemoveAt(timers, i)
    /\ ariaPressed' = refreshLabel(attr)
    /\ emitted' = <<>>
    /\ outcome' = "none"
    /\ UNCHANGED <<pc, storage, storageMode, attr, transitionClass, osDark, mqlCap,
                   watching, hasButton, choice, toggles, base>>

\* ---------------------------------------------------------------- specification
Next ==
    \/ Initialize
    \/ \E v \in SetInputs : ApiSet(v)
    \/ ApiToggle
    \/ Click
    \/ \E key \in Keys : KeyDown(key)
    \/ OSChange
    \/ FireApply
    \/ FireRemove
    \/ FireRefresh
    \/ \E d \in {TickQuantum, IF timers = <<>> THEN 0 ELSE MinRem(timers)} : Tick(d)

Spec == Init /\ [][Next]_vars

\* a step of the event loop: the oldest due callback runs, or time goes on
EventLoop ==
    \/ FireApply
    \/ FireRemove
    \/ FireRefresh
    \/ \E d \in {TickQuantum, IF timers = <<>> THEN 0 ELSE MinRem(timers)} : Tick(d)

\* the page with an event loop that does not stall while timers are pending
SpecFair == Spec /\ WF_vars(EventLoop)

NextQueries ==
    \/ Next
    \/ ApiCurrent
    \/ ApiStored

\* the page with scripts that also read XSoftTheme.current and XSoftTheme.stored
SpecQueries == Init /\ [][NextQueries]_vars

\* setTheme(theme, options) called as a function, with any options
SetThemeCall(theme, transition, noEmit) ==
    /\ pc = "ready"
    /\ \/ /\ setTheme(theme, transition, noEmit, <<>>)
          /\ outcome' = "ok" /\ toggles' = 0 /\ base' = NULL
       \/ setThemeThrows(theme) /\ outcome' = "error"
    /\ UNCHANGED <<pc, storageMode, osDark, mqlCap, watching, hasButton>>

NextCalls ==
    \/ Initialize
    \/ \E theme \in SetInputs, transition \in BOOLEAN, noEmit \in BOOLEAN :
           SetThemeCall(theme, transition, noEmit)
    \/ OSChange
    \/ FireApply
    \/ FireRemove
    \/ \E d \in {TickQuantum, IF timers = <<>> THEN 0 ELSE MinRem(timers)} : Tick(d)

\* setTheme driven by direct calls instead of the XSoftTheme object and the control
SpecCalls == Init /\ [][NextCalls]_vars

TypeOK ==
    /\ pc \in {"loading", "ready"}
    /\ storage \in StoredValues
    /\ attr \in HintValues
    /\ transitionClass \in BOOLEAN
    /\ Len(timers) <= MaxTimers

\* ---------------------------------------------------------------- properties
Quiescent == timers = <<>>

NoApplyPending == \A i \in 1..Len(timers) : timers[i].kind # "apply"

\* C1: once init() has run, the data-theme attribute of the root element is
\* 'light' or 'dark' in every reachable state: never 'system', absent or
\* another value, whatever setTheme, toggleTheme, OS changes and timers did
\* and whether or not storage is available.
C1_AttrIsEffectiveTheme == pc = "ready" => attr \in Effective

\* 'system' was requested without storage and has been applied and settled
C1_Witness ==
    /\ pc = "ready" /\ storageMode = "throws" /\ choice = VALID.SYSTEM
    /\ Quiescent /\ attr = VALID.DARK /\ ~watching

\* C2: with storage available, XSoftTheme.set(m) for each of the three modes is
\* followed by getStoredPreference() = m, whatever was stored before and
\* whatever timers are pending.
C2_SetThenStored ==
    [][\A m \in Modes : (storageMode = "ok" /\ ApiSet(m)) => readStored' = m]_vars

\* 'system' has just been stored over a previous 'dark' while a timer was pending
C2_Witness ==
    /\ storageMode = "ok" /\ outcome = "ok" /\ readStored = VALID.SYSTEM
    /\ attr = VALID.DARK /\ ~osDark /\ Len(timers) = 2 /\ toggles = 0
    /\ emitted = <<SetEvent(VALID.SYSTEM)>>

\* C3: setTheme with a value outside the three modes raises an error to its
\* caller and changes nothing: stored preference, attribute and marker class
\* stay, no timer is scheduled and no event is dispatched.
C3_InvalidLeavesState ==
    [][\A v \in SetInputs \ Modes :
          ApiSet(v) => /\ outcome' = "error"
                       /\ UNCHANGED <<storage, attr, transitionClass, timers>>
                       /\ emitted' = <<>>]_vars

\* an invalid call was rejected while a transition was under way
C3_Witness ==
    /\ outcome = "error" /\ transitionClass /\ timers # <<>>
    /\ storage = VALID.DARK /\ attr = VALID.LIGHT

\* C4: toggleTheme() twice in a row (no setTheme call and no OS notification
\* in between, the first call's deferred callback run or not) brings the
\* effective theme back to what it was before the first call, once the
\* deferred callbacks have run.
C4_ToggleInvolution ==
    (pc = "ready" /\ toggles = 2 /\ NoApplyPending) => getEffectiveTheme = base

\* C5: a page initialised with mode 'system' listens to the OS signal (where
\* the media query takes listeners), and while it listens and the stored
\* preference is still absent or 'system' it follows it: a preference change schedules
\* the re-application of 'system' without any write to the stored preference,
\* the deferred callback writes the current OS value ('dark' after a change
\* from light to dark), and when no such callback is pending the attribute
\* equals the OS signal.
C5_Pre == pc = "ready" /\ watching /\ readStored \in {NULL, VALID.SYSTEM}

C5_SystemFollowsOS ==
    /\ [][(Initialize /\ InitChosen(readStored, attr) = VALID.SYSTEM /\ mqlCap = "listener")
             => watching']_vars
    /\ []((C5_Pre /\ storageMode = "ok" /\ NoApplyPending) => getEffectiveTheme = getSystemPref)
    /\ [][(C5_Pre /\ OSChange)
             => /\ timers' = Append(timers, Timer("apply", VALID.SYSTEM, 0))
                /\ UNCHANGED <<storage, choice>>]_vars
    /\ [][(C5_Pre /\ osDark /\ FireApply /\ timers[DueIndex].theme = VALID.SYSTEM)
             => /\ getEffectiveTheme' = VALID.DARK
                /\ UNCHANGED <<storage, choice>>]_vars

\* the OS turned dark, the callback ran, nobody ever called setTheme
C5_Witness ==
    /\ C5_Pre /\ readStored = NULL /\ choice = NULL /\ osDark
    /\ attr = VALID.DARK /\ emitted = <<AppliedEvent(VALID.SYSTEM)>>
    /\ Len(timers) = 1 /\ timers[1].kind = "remove"

\* C6: whenever the stored preference is 'system', also when it became so by
\* setTheme('system') on a page initialised with an explicit light or dark
\* preference, OS preference changes are followed: once the pending
\* callbacks have run the attribute equals the OS signal.
C6_StoredSystemFollowsOS ==
    (pc = "ready" /\ mqlCap = "listener" /\ storageMode = "ok"
        /\ readStored = VALID.SYSTEM /\ NoApplyPending)
    => attr = getSystemPref

\* C7: without storage (reads and writes throw, or localStorage is missing)
\* setTheme('dark') returns normally; called without transition the effective
\* theme is 'dark' at once, called with transition the deferred callback for
\* 'dark' is scheduled and the effective theme is 'dark' when it has run;
\* getStoredPreference() stays absent throughout.
C7_DarkWithoutStorage ==
    /\ [](storageMode # "ok" => readStored = NULL)
    /\ [][(storageMode # "ok" /\ \E noEmit \in BOOLEAN :
                 SetThemeCall(VALID.DARK, TRUE, noEmit))
             => /\ outcome' = "ok"
                /\ timers' = Append(timers, Timer("apply", VALID.DARK, 0))]_vars
    /\ [][(storageMode # "ok" /\ \E noEmit \in BOOLEAN :
                 SetThemeCall(VALID.DARK, FALSE, noEmit))
             => (outcome' = "ok" /\ getEffectiveTheme' = VALID.DARK)]_vars
    /\ [][(storageMode # "ok" /\ FireApply /\ timers[DueIndex].theme = VALID.DARK)
             => getEffectiveTheme' = VALID.DARK]_vars

\* 'dark' was requested on a light page whose storage throws; the callback ran
C7_Witness ==
    /\ storageMode = "throws" /\ choice = VALID.DARK /\ ~osDark
    /\ attr = VALID.DARK /\ emitted = <<AppliedEvent(VALID.DARK)>>
    /\ readStored = NULL /\ outcome = "none"

\* C8: without storage the explicit choice of light or dark made through
\* setTheme or toggleTheme is kept for the page load: once the pending
\* callbacks have run the effective theme is that choice, OS preference
\* changes notwithstanding.
C8_ChoiceKeptWithoutStorage ==
    (pc = "ready" /\ storageMode # "ok" /\ choice \in Effective /\ NoApplyPending)
    => getEffectiveTheme = choice

\* C9: every 'xsoft:themechange' event carries the requested mode and the
\* applied value; the applied value is 'light' or 'dark' and equals the
\* requested mode unless that is 'system'.
C9_EventsCarryBoth ==
    \A i \in 1..Len(emitted) :
        /\ emitted[i].themeRequested \in Modes
        /\ emitted[i].themeApplied \in Effective
        /\ emitted[i].themeRequested # VALID.SYSTEM
               => emitted[i].themeApplied = emitted[i].themeRequested

\* C10: init() resolves: a valid stored preference, else a valid hint on the
\* root element, else 'system'; 'system' is resolved against the OS signal
\* (light when there is none); any stored value outside the three modes
\* counts as absent. The attribute after init() is that resolution.
C10_Stored == IF storageMode = "ok" /\ storage \in Modes THEN storage ELSE NULL

C10_Hint == IF attr \in Modes THEN attr ELSE NULL

C10_Mode ==
    IF C10_Stored # NULL THEN C10_Stored
    ELSE IF C10_Hint # NULL THEN C10_Hint
    ELSE "system"

C10_Expected ==
    IF C10_Mode = "system"
    THEN (IF mqlCap # "none" /\ osDark THEN "dark" ELSE "light")
    ELSE C10_Mode

C10_InitResolution ==
    [][Initialize => attr' = C10_Expected]_vars

\* init() has just run on a page with an invalid stored value and no hint,
\* under a light OS signal
C10_Witness ==
    /\ pc = "ready" /\ choice = NULL /\ Quiescent /\ storage = "auto"
    /\ mqlCap # "none" /\ ~osDark /\ attr = VALID.LIGHT
    /\ emitted = <<AppliedEvent(VALID.SYSTEM)>>

\* C11: toggleTheme() takes the value of the root attribute, stores the other
\* value of {light, dark} (so with storage available the stored preference
\* is 'light' or 'dark' afterwards, never 'system', whatever it was), and
\* schedules the callback that makes that value the effective theme.
C11_Opposite == IF attr = "dark" THEN "light" ELSE "dark"

C11_ToggleSetsOpposite ==
    /\ [][(ApiToggle \/ Click)
             => /\ storageMode = "ok" => (readStored' = C11_Opposite /\ storage' = C11_Opposite)
                /\ readStored' # VALID.SYSTEM
                /\ timers'[Len(timers) + 1] = [kind |-> "apply", theme |-> C11_Opposite, rem |-> 0]
                /\ attr' = attr]_vars
    /\ [][(FireApply /\ timers[DueIndex].theme \in Effective)
             => getEffectiveTheme' = timers[DueIndex].theme]_vars

\* one toggle on a page that followed a dark OS signal: 'light' is stored and applied
C11_Witness ==
    /\ storageMode = "ok" /\ toggles = 1 /\ base = VALID.DARK /\ osDark /\ watching
    /\ storage = VALID.LIGHT /\ attr = VALID.LIGHT /\ NoApplyPending

\* C12: XSoftTheme.current and XSoftTheme.stored are pure queries: reading
\* either leaves stored preference, attribute and marker class as they are,
\* schedules no timer and dispatches no event. getEffectiveTheme() is the
\* attribute when that is 'light' or 'dark' and the OS signal otherwise
\* (light where there is none); readStored() is the stored mode, or absent.
C12_OS == IF mqlCap # "none" /\ osDark THEN "dark" ELSE "light"

C12_Effective == IF attr \in {"light", "dark"} THEN attr ELSE C12_OS

C12_Stored ==
    IF storageMode = "ok" /\ storage \in {"light", "dark", "system"} THEN storage ELSE NULL

C12_PureQueries ==
    /\ [](getEffectiveTheme = C12_Effective /\ readStored = C12_Stored)
    /\ [][(ApiCurrent \/ ApiStored)
             => /\ UNCHANGED <<storage, attr, transitionClass, timers, ariaPressed>>
                /\ emitted' = <<>>]_vars
    /\ [][ApiCurrent => outcome' = C12_Effective]_vars
    /\ [][ApiStored => outcome' = C12_Stored]_vars

\* XSoftTheme.stored has just returned 'system' in the middle of a transition
C12_Witness ==
    /\ outcome = VALID.SYSTEM /\ storage = VALID.SYSTEM /\ transitionClass
    /\ Len(timers) = 2 /\ timers[1].kind = "apply" /\ attr = VALID.LIGHT /\ osDark

\* C13: the stored preference changes only in setTheme and toggleTheme
\* (XSoftTheme.set, XSoftTheme.toggle, the toggle control); init(), the OS
\* change listener and the timer callbacks leave the key as it is, and once
\* a value is stored no step removes it.
C13_StoredOnlyByChoice ==
    /\ [][storage' # storage
             => \/ \E v \in Modes : ApiSet(v)
                \/ ApiToggle
                \/ Click
                \/ \E key \in {" ", "Enter"} : KeyDown(key)]_vars
    /\ [][(Initialize \/ OSChange \/ FireApply \/ FireRemove \/ FireRefresh)
             => storage' = storage]_vars
    /\ [][storage # NULL => storage' # NULL]_vars

\* init() and an OS change with its callback have run over an invalid stored value
C13_Witness ==
    /\ pc = "ready" /\ storageMode = "ok" /\ storage = "auto" /\ watching
    /\ Len(timers) = 1 /\ timers[1].kind = "remove" /\ choice = NULL

\* C14 (as claimed): without the OS-preference capability (matchMedia missing
\* or throwing, or a query object without a listener-registration method)
\* init() completes, nothing follows the OS, and 'system' resolves to 'light'.
C14_NoCapabilityLight ==
    (pc = "ready" /\ mqlCap # "listener")
    => /\ ~watching
       /\ \A i \in 1..Len(emitted) :
              (emitted[i].themeRequested = VALID.SYSTEM /\ emitted[i].themeApplied # "absent")
              => emitted[i].themeApplied = "light"

\* C14 (amended): init() always completes; without a listener-registration
\* method or without matchMedia no listener is registered and an OS change
\* schedules nothing; without matchMedia 'system' resolves to 'light'; with a
\* query object that only lacks the registration methods 'system' resolves
\* to what the query reports when it is resolved.
C14_Resolved(cap, dark) == IF cap = "none" THEN "light" ELSE IF dark THEN "dark" ELSE "light"

C14_NoCapabilityDegrades ==
    /\ [][Initialize => (pc' = "ready" /\ outcome' = "ok")]_vars
    /\ [](mqlCap # "listener" => ~watching)
    /\ [](mqlCap # "listener" => FinalOf(VALID.SYSTEM) = C14_Resolved(mqlCap, osDark))
    /\ [](mqlCap # "listener" =>
            \A i \in 1..Len(emitted) :
                (emitted[i].themeRequested = VALID.SYSTEM /\ emitted[i].themeApplied # "absent")
                => emitted[i].themeApplied = C14_Resolved(mqlCap, osDark))
    /\ [][(mqlCap # "listener" /\ OSChange) => UNCHANGED <<timers, attr, transitionClass>>]_vars

\* 'system' was requested and applied on a platform without matchMedia
C14_Witness ==
    /\ pc = "ready" /\ mqlCap = "none" /\ choice = VALID.SYSTEM /\ attr = VALID.LIGHT
    /\ emitted = <<AppliedEvent(VALID.SYSTEM)>> /\ Len(timers) = 1

\* C15: while the removal of a transition started later is still ahead, the
\* marker class is on the root element: the removal timer of an earlier
\* transition does not take it away before the last window has elapsed.
C15_WindowRestarts ==
    (\E i \in 1..Len(timers) : timers[i].kind = "remove" /\ timers[i].rem > 0)
    => transitionClass

\* C16: the marker class is transient: it is on only while a callback of
\* withTransition is pending, so no quiescent state carries it; init() adds
\* no class, schedules nothing and writes the attribute itself; and with
\* due callbacks run and time passing the class always goes away again.
C16_MarkerTransient ==
    /\ [](transitionClass => \E i \in 1..Len(timers) : timers[i].kind \in {"apply", "remove"})
    /\ [](Quiescent => ~transitionClass)
    /\ [][Initialize => (~transitionClass' /\ timers' = <<>> /\ attr' \in Effective)]_vars
    /\ (transitionClass ~> ~transitionClass)

\* a transition has come and gone
C16_Witness ==
    /\ pc = "ready" /\ Quiescent /\ ~transitionClass /\ choice = VALID.DARK
    /\ attr = VALID.DARK /\ ~osDark /\ outcome = "none"

\* C17: with storage available, whenever no timer is pending and the stored
\* preference is 'light' or 'dark', the attribute equals it, whatever the
\* order of set, toggle, click, OS changes and callbacks was.
C17_LastChoiceWins ==
    (pc = "ready" /\ storageMode = "ok" /\ Quiescent /\ readStored \in Effective)
    => attr = readStored

\* 'dark' was chosen on a page that follows a light OS signal, and all has settled
C17_Witness ==
    /\ pc = "ready" /\ storageMode = "ok" /\ Quiescent /\ watching /\ ~osDark
    /\ storage = VALID.DARK /\ attr = VALID.DARK /\ choice = VALID.DARK /\ toggles = 0

\* C18: when an 'xsoft:themechange' event is delivered, the attribute already
\* is the effective value of the mode the event names.
C18_EventAfterAttribute ==
    \A i \in 1..Len(emitted) : attr = FinalOf(emitted[i].themeRequested)

\* C19: with a toggle control, whenever no timer is pending after init(),
\* aria-pressed is 'true' exactly when getEffectiveTheme() is 'dark'.
C19_AriaFollowsTheme ==
    (pc = "ready" /\ hasButton /\ Quiescent)
    => ((ariaPressed = "true") <=> (getEffectiveTheme = VALID.DARK))
          /\ ariaPressed \in {"true", "false"}

\* the control was clicked on a light page and everything has run
C19_Witness ==
    /\ pc = "ready" /\ hasButton /\ Quiescent /\ ariaPressed = "true"
    /\ toggles = 1 /\ base = VALID.LIGHT /\ attr = VALID.DARK /\ storageMode = "missing"
====
